---- MODULE Spec2Model ----
(***************************************************************************)
(* Model of datahead/collector.py: ValueCollector, the host registry, the  *)
(* /dh/lo announcement handler, the delayed Observe registration threads   *)
(* and the notification sink.                                              *)
(***************************************************************************)
EXTENDS Integers, Sequences, FiniteSets, TLC

VARIABLES
    hosts,        \* self._hosts: the list of Host objects, in insertion order
    coapClient,   \* self._coapClient: 0 for None, else an index into clients
    clients,      \* every CoapClient object constructed so far
    attempts,     \* every Timer started so far: pending, running or finished
    resource,     \* the resource handed to a server callback in this step, as the
                  \* callback left it; Nothing if the step is no callback
    lastSent,     \* the call of CoapClient.send made in this step, Nothing if none
    logged,       \* the lines _observeTemp wrote with log.info in this step
    delivered,    \* the message the client handed to its response hook in this
                  \* step, Nothing if it handed none
    stopped       \* the server loop has returned and close() has run

vars ==
    <<hosts, coapClient, clients, attempts, resource, lastSent, logged, delivered, stopped>>

----------------------------------------------------------------------------
(* Bounds of the model *)

MaxAttempts == 2

(* Program constants *)

TimerDelay == 2

(* None as the value of a field; Nothing where a step made no call. *)
None == "None"
Nothing == [nothing |-> TRUE]

(* Addresses are strings, modelled as sequences of characters. *)
Addr1 == <<"f", ":", ":", "1">>
Addr2 == <<"1", "0">>
Port1 == 5683
Port2 == 5684

(* resource.sourceAddress is the (address, port) tuple of the sender. *)
Sources == {<<Addr1, Port1>>, <<Addr1, Port2>>, <<Addr2, Port1>>}

(* datahead.models.Host decides whether a Host object counts as true in    *)
(* "if host:"; the handler has a branch for either answer.                 *)
HostTruthValues == BOOLEAN

(* What the server can hand to its callbacks: the method selects the hook, *)
(* hostTruthy is the truth value of the Host object that _createHost       *)
(* returns, should the handler create one.                                 *)
Inputs ==
    [method : {"POST"}, path : {"/dh/lo"}, sourceAddress : Sources, hostTruthy : {TRUE}]
    \cup [method : {"POST"}, path : {"/dh/lo"},
          sourceAddress : {<<Addr2, Port1>>}, hostTruthy : HostTruthValues]
    \cup [method : {"POST", "GET"}, path : {"/dh/unknown"},
          sourceAddress : {<<Addr1, Port1>>}, hostTruthy : {TRUE}]

(* RandomDraws with randrange's bounds passed to randint: one past each end. *)
RandomDraws_onePastEnd == {<<0, 0, 256>>, <<65536, 255, 0>>}

(* random.randint(0, 65535) for the message id and random.randint(0, 255)  *)
(* for each token byte: the model samples draws that reach both ends of    *)
(* each range.                                                             *)
RandomDraws == {<<0, 0, 255>>, <<65535, 255, 0>>}

(* The notifications the client can deliver: codeClass, codeDetail, payload. *)
Notifications ==
    {[codeClass |-> 2, codeDetail |-> 5,  payload |-> "23.5"],
     [codeClass |-> 4, codeDetail |-> 10, payload |-> "23.5"]}

----------------------------------------------------------------------------
(* Strings *)

RECURSIVE split(_, _)
split(s, sep) ==
    IF \A i \in 1..Len(s) : s[i] # sep
    THEN <<s>>
    ELSE LET i == CHOOSE k \in 1..Len(s) :
                      s[k] = sep /\ \A j \in 1..(k - 1) : s[j] # sep
         IN  <<SubSeq(s, 1, i - 1)>> \o split(SubSeq(s, i + 1, Len(s)), sep)

NameTag == <<"m", "o", "t", "e", "-">>

(* getInvariantName with the first segment taken, split(':')[0]. *)
getInvariantName_firstSegment(host) ==
    LET parts == split(host.address, ":")
        tail  == parts[1]
    IN  NameTag \o tail

getInvariantName(host) ==
    LET parts == split(host.address, ":")
        tail  == parts[Len(parts)]
    IN  NameTag \o tail

Digit(d) == CASE d = 0 -> "0" [] d = 1 -> "1" [] d = 2 -> "2" [] d = 3 -> "3"
              [] d = 4 -> "4" [] d = 5 -> "5" [] d = 6 -> "6" [] d = 7 -> "7"
              [] d = 8 -> "8" [] d = 9 -> "9"

RECURSIVE str(_)
str(n) == IF n < 10 THEN <<Digit(n)>> ELSE Append(str(n \div 10), Digit(n % 10))

----------------------------------------------------------------------------
(* The server callbacks *)

NewResource(in) ==
    [method |-> in.method, path |-> in.path, sourceAddress |-> in.sourceAddress,
     hostTruthy |-> in.hostTruthy, resultClass |-> None, resultCode |-> None]

(* FindHost with x.name compared to the address. *)
FindHost_byName(hs, res) ==
    IF \E i \in 1..Len(hs) : hs[i].name = res.sourceAddress[1]
    THEN CHOOSE i \in 1..Len(hs) : hs[i].name = res.sourceAddress[1]
    ELSE 0

(* next(x for x in self._hosts if x.address == resource.sourceAddress[0]): *)
(* the index of the first match, 0 for no match.                           *)
FindHost(hs, res) ==
    IF \E i \in 1..Len(hs) : hs[i].address = res.sourceAddress[1]
    THEN CHOOSE i \in 1..Len(hs) :
             /\ hs[i].address = res.sourceAddress[1]
             /\ \A j \in 1..(i - 1) : hs[j].address # res.sourceAddress[1]
    ELSE 0

CreateHost(res) ==
    LET host == [address |-> res.sourceAddress[1], name |-> <<>>]
    IN  [host EXCEPT !.name = getInvariantName(host)]

(* StartTimer that starts two Timers for one announcement. *)
StartTimer_twice(ts, res) ==
    ts \o << [args |-> res.sourceAddress, elapsed |-> 0, pc |-> "pending"],
             [args |-> res.sourceAddress, elapsed |-> 0, pc |-> "pending"] >>

(* Timer(2, self._startObserve, [resource.sourceAddress]).start() *)
StartTimer(ts, res) ==
    Append(ts, [args |-> res.sourceAddress, elapsed |-> 0, pc |-> "pending"])

(* SetCreated with the response code of an update. *)
SetCreated_changed(res) ==
    [res EXCEPT !.resultClass = "Success", !.resultCode = "Changed"]

SetCreated(res) ==
    [res EXCEPT !.resultClass = "Success", !.resultCode = "Created"]

SetServerError(res) ==
    [res EXCEPT !.resultClass = "ServerError", !.resultCode = "InternalServerError"]

SetNotFound(res) ==
    [res EXCEPT !.resultClass = "ClientError", !.resultCode = "NotFound"]

GetResource(in) ==
    /\ in.method = "GET"
    /\ resource' = NewResource(in)
    /\ lastSent' = Nothing
    /\ logged' = <<>>
    /\ delivered' = Nothing
    /\ UNCHANGED <<hosts, coapClient, clients, attempts, stopped>>

(* HostCreated with the list assigned instead of appended to. *)
HostCreated_replace(res) ==
    /\ hosts' = <<CreateHost(res)>>
    /\ resource' = SetCreated(res)
    /\ attempts' = StartTimer(attempts, res)

(* Lines 86-92: the host was created. *)
HostCreated(res) ==
    /\ hosts' = Append(hosts, CreateHost(res))
    /\ resource' = SetCreated(res)
    /\ attempts' = StartTimer(attempts, res)

(* HostCreationFailed with the Timer started all the same. *)
HostCreationFailed_startsTimer(res) ==
    /\ resource' = SetServerError(res)
    /\ attempts' = StartTimer(attempts, res)
    /\ UNCHANGED hosts

(* Lines 93-96: _createHost returned nothing true. *)
HostCreationFailed(res) ==
    /\ resource' = SetServerError(res)
    /\ UNCHANGED <<hosts, attempts>>

(* HostFound without a new Timer. *)
HostFound_noTimer(res) ==
    /\ resource' = res
    /\ UNCHANGED <<hosts, attempts>>

(* Lines 97-100: the host is in the list already. *)
HostFound(res) ==
    /\ resource' = res
    /\ attempts' = StartTimer(attempts, res)
    /\ UNCHANGED hosts

(* UnknownPath that only logs, as _getResource does. *)
UnknownPath_logOnly(res) ==
    /\ resource' = res
    /\ UNCHANGED <<hosts, attempts>>

(* Lines 102-105 *)
UnknownPath(res) ==
    /\ resource' = SetNotFound(res)
    /\ UNCHANGED <<hosts, attempts>>

PostResource(in) ==
    LET res == NewResource(in)
    IN
    /\ in.method = "POST"
    /\ IF res.path = "/dh/lo"
       THEN IF FindHost(hosts, res) = 0
            THEN IF res.hostTruthy
                 THEN HostCreated(res)
                 ELSE HostCreationFailed(res)
            ELSE HostFound(res)
       ELSE UnknownPath(res)
    /\ lastSent' = Nothing
    /\ logged' = <<>>
    /\ delivered' = Nothing
    /\ UNCHANGED <<coapClient, clients, stopped>>

(* CoapServer dispatches one request at a time to the hook registered for *)
(* its method, until the server loop ends.  MaxAttempts caps the number of *)
(* announcements, each of which may start a Timer.                         *)
ServeGet(in) ==
    /\ ~stopped
    /\ GetResource(in)

ServePost(in) ==
    /\ ~stopped
    /\ in.path = "/dh/lo" => Len(attempts) < MaxAttempts
    /\ PostResource(in)

----------------------------------------------------------------------------
(* The Observe registration thread, _startObserve, one per Timer.  Its    *)
(* steps are the places where it reads or writes what other threads see:    *)
(* the read of self._coapClient (line 154), the construction and assignment *)
(* of the client (155), registerForResponse (156) and send (160).           *)

hostTuple(hostAddrTuple) == <<hostAddrTuple[1], hostAddrTuple[2]>>

(* BuildMessage addressed to the destination the shared client was built *)
(* for.                                                                  *)
BuildMessage_clientDest(hostAddrTuple, messageId, token0, token1) ==
    [address     |-> clients[coapClient].dest,
     messageType |-> "NON",
     codeClass   |-> "Request",
     codeDetail  |-> "GET",
     messageId   |-> messageId,
     options     |-> << <<"UriPath", "dh">>, <<"UriPath", "tmp">>, <<"Observe", 0>> >>,
     tokenLength |-> 2,
     token       |-> <<token0, token1>>]

(* Lines 138-151.  The message is local to the thread until it is handed to *)
(* send, so its random fields are drawn in the step that sends it.          *)
BuildMessage(hostAddrTuple, messageId, token0, token1) ==
    [address     |-> hostTuple(hostAddrTuple),
     messageType |-> "NON",
     codeClass   |-> "Request",
     codeDetail  |-> "GET",
     messageId   |-> messageId,
     options     |-> << <<"UriPath", "dh">>, <<"UriPath", "tmp">>, <<"Observe", 0>> >>,
     tokenLength |-> 2,
     token       |-> <<token0, token1>>]

NewClient(hostAddrTuple) ==
    [dest |-> hostTuple(hostAddrTuple), registered |-> FALSE, closed |-> FALSE]

(* A thread that has returned keeps nothing but how it ended. *)
Ended(how) == [args |-> <<>>, elapsed |-> TimerDelay, pc |-> how]

(* if not self._coapClient *)
AfterClientCheck(client) == IF client = 0 THEN "create" ELSE "send"

(* StartObserve called without waiting for the Timer's delay. *)
StartObserve_noWait(i) ==
    /\ attempts[i].pc = "pending"
    /\ attempts' = [attempts EXCEPT ![i].pc = AfterClientCheck(coapClient)]
    /\ lastSent' = Nothing
    /\ logged' = <<>>
    /\ delivered' = Nothing
    /\ resource' = Nothing
    /\ UNCHANGED <<hosts, coapClient, clients, stopped>>

(* The timer expires and the thread runs up to the test of line 154. *)
StartObserve(i) ==
    /\ attempts[i].pc = "pending"
    /\ attempts[i].elapsed >= TimerDelay
    /\ attempts' = [attempts EXCEPT ![i].pc = AfterClientCheck(coapClient)]
    /\ lastSent' = Nothing
    /\ logged' = <<>>
    /\ delivered' = Nothing
    /\ resource' = Nothing
    /\ UNCHANGED <<hosts, coapClient, clients, stopped>>

(* self._coapClient = CoapClient(sourcePort=self._sourcePort, dest=hostTuple) *)
CreateClient(i) ==
    /\ attempts[i].pc = "create"
    /\ clients' = Append(clients, NewClient(attempts[i].args))
    /\ coapClient' = Len(clients) + 1
    /\ attempts' = [attempts EXCEPT ![i].pc = "register"]
    /\ lastSent' = Nothing
    /\ logged' = <<>>
    /\ delivered' = Nothing
    /\ resource' = Nothing
    /\ UNCHANGED <<hosts, stopped>>

(* self._coapClient.registerForResponse(self._observeTemp) *)
RegisterForResponse(i) ==
    /\ attempts[i].pc = "register"
    /\ clients' = [clients EXCEPT ![coapClient].registered = TRUE]
    /\ attempts' = [attempts EXCEPT ![i].pc = "send"]
    /\ lastSent' = Nothing
    /\ logged' = <<>>
    /\ delivered' = Nothing
    /\ resource' = Nothing
    /\ UNCHANGED <<hosts, coapClient, stopped>>

(* self._coapClient.send(msg) *)
Send(i) ==
    /\ attempts[i].pc = "send"
    /\ \E r \in RandomDraws :
          lastSent' = [args       |-> attempts[i].args,
                       client     |-> coapClient,
                       registered |-> clients[coapClient].registered,
                       closed     |-> clients[coapClient].closed,
                       msg        |-> BuildMessage(attempts[i].args, r[1], r[2], r[3])]
    /\ attempts' = [attempts EXCEPT ![i] = Ended("done")]
    /\ logged' = <<>>
    /\ delivered' = Nothing
    /\ resource' = Nothing
    /\ UNCHANGED <<hosts, coapClient, clients, stopped>>

(* Raise with a retry: the handler starts a new Timer for the same host. *)
Raise_retry(i) ==
    /\ \/ attempts[i].pc = "pending" /\ attempts[i].elapsed >= TimerDelay
       \/ attempts[i].pc \in {"create", "register", "send"}
    /\ attempts' = Append([attempts EXCEPT ![i] = [args |-> <<>>, elapsed |-> TimerDelay,
                                                   pc |-> "failed"]],
                          [args |-> attempts[i].args, elapsed |-> 0, pc |-> "pending"])
    /\ lastSent' = Nothing
    /\ logged' = <<>>
    /\ delivered' = Nothing
    /\ resource' = Nothing
    /\ UNCHANGED <<hosts, coapClient, clients, stopped>>

(* Any statement of the try block raises; the bare except logs and returns. *)
(* The statement that raised has had no effect.                             *)
Raise(i) ==
    /\ \/ attempts[i].pc = "pending" /\ attempts[i].elapsed >= TimerDelay
       \/ attempts[i].pc \in {"create", "register", "send"}
    /\ attempts' = [attempts EXCEPT ![i] = Ended("failed")]
    /\ lastSent' = Nothing
    /\ logged' = <<>>
    /\ delivered' = Nothing
    /\ resource' = Nothing
    /\ UNCHANGED <<hosts, coapClient, clients, stopped>>

(* Time passes for every Timer that has not expired yet. *)
Tick ==
    /\ \E i \in 1..Len(attempts) :
           attempts[i].pc = "pending" /\ attempts[i].elapsed < TimerDelay
    /\ attempts' = [i \in 1..Len(attempts) |->
                       IF attempts[i].pc = "pending" /\ attempts[i].elapsed < TimerDelay
                       THEN [attempts[i] EXCEPT !.elapsed = @ + 1]
                       ELSE attempts[i]]
    /\ lastSent' = Nothing
    /\ logged' = <<>>
    /\ delivered' = Nothing
    /\ resource' = Nothing
    /\ UNCHANGED <<hosts, coapClient, clients, stopped>>

----------------------------------------------------------------------------
(* The notification sink *)

(* ResponseLine without the padding of a one-digit detail. *)
ResponseLine_noPad(message) ==
    <<"Response code: ">> \o str(message.codeClass) \o <<".">>
        \o str(message.codeDetail) \o <<"; value ">> \o <<message.payload>>

ResponseLine(message) ==
    LET prefix == IF message.codeDetail < 10 THEN <<"0">> ELSE <<>>
    IN  <<"Response code: ">> \o str(message.codeClass) \o <<".">> \o prefix
            \o str(message.codeDetail) \o <<"; value ">> \o <<message.payload>>

(* ObserveTemp that closes the client on a client-error response. *)
ObserveTemp_closesOnError(message) ==
    /\ \E c \in 1..Len(clients) : clients[c].registered /\ ~clients[c].closed
    /\ delivered' = message
    /\ logged' = <<ResponseLine(message)>>
    /\ lastSent' = Nothing
    /\ resource' = Nothing
    /\ clients' = IF message.codeClass = 4
                  THEN [c \in 1..Len(clients) |-> [clients[c] EXCEPT !.closed = TRUE]]
                  ELSE clients
    /\ UNCHANGED <<hosts, coapClient, attempts, stopped>>

(* The client calls the registered hook for every response it receives. *)
ObserveTemp(message) ==
    /\ \E c \in 1..Len(clients) : clients[c].registered /\ ~clients[c].closed
    /\ delivered' = message
    /\ logged' = <<ResponseLine(message)>>
    /\ lastSent' = Nothing
    /\ resource' = Nothing
    /\ UNCHANGED <<hosts, coapClient, clients, attempts, stopped>>

(* Close that also cancels the Timers that have not expired. *)
Close_cancelsTimers ==
    /\ ~stopped
    /\ stopped' = TRUE
    /\ clients' = IF coapClient # 0
                  THEN [clients EXCEPT ![coapClient].closed = TRUE]
                  ELSE clients
    /\ attempts' = [i \in 1..Len(attempts) |->
                       IF attempts[i].pc = "pending"
                       THEN [attempts[i] EXCEPT !.pc = "cancelled"]
                       ELSE attempts[i]]
    /\ lastSent' = Nothing
    /\ logged' = <<>>
    /\ delivered' = Nothing
    /\ resource' = Nothing
    /\ UNCHANGED <<hosts, coapClient>>

(* The server loop ends and the finally clause of the entry point runs close(). *)
Close ==
    /\ ~stopped
    /\ stopped' = TRUE
    /\ clients' = IF coapClient # 0
                  THEN [clients EXCEPT ![coapClient].closed = TRUE]
                  ELSE clients
    /\ lastSent' = Nothing
    /\ logged' = <<>>
    /\ delivered' = Nothing
    /\ resource' = Nothing
    /\ UNCHANGED <<hosts, coapClient, attempts>>

----------------------------------------------------------------------------
Init ==
    /\ hosts = <<>>
    /\ coapClient = 0
    /\ clients = <<>>
    /\ attempts = <<>>
    /\ resource = Nothing
    /\ lastSent = Nothing
    /\ logged = <<>>
    /\ delivered = Nothing
    /\ stopped = FALSE

Next ==
    \/ \E in \in Inputs : ServeGet(in)
    \/ \E in \in Inputs : ServePost(in)
    \/ \E i \in 1..Len(attempts) : StartObserve(i)
    \/ \E i \in 1..Len(attempts) : CreateClient(i)
    \/ \E i \in 1..Len(attempts) : RegisterForResponse(i)
    \/ \E i \in 1..Len(attempts) : Send(i)
    \/ \E i \in 1..Len(attempts) : Raise(i)
    \/ Tick
    \/ \E message \in Notifications : ObserveTemp(message)
    \/ Close

Spec == Init /\ [][Next]_vars

(* Time passes, and a Timer thread whose delay is over gets to run: Timer *)
(* threads are not daemon threads, so they run even after the main       *)
(* thread has left close().                                              *)
FairSpec ==
    /\ Spec
    /\ WF_vars(Tick)
    /\ \A i \in 1..MaxAttempts : WF_vars(i <= Len(attempts) /\ StartObserve(i))

----------------------------------------------------------------------------
(* Announcements and the registry *)

Announcement(res) ==
    res # Nothing /\ res.method = "POST" /\ res.path = "/dh/lo"

HostsAt(hs, address) == {i \in 1..Len(hs) : hs[i].address = address}

Pending(sourceAddress) ==
    [args |-> sourceAddress, elapsed |-> 0, pc |-> "pending"]

(* C1: the registry holds at most one Host per address, the address being *)
(* sourceAddress[0] without the port; once an announcement from A has     *)
(* been answered without a server error, exactly one Host has address A.  *)
C1_OneHostPerAddress ==
    /\ \A i, j \in 1..Len(hosts) : hosts[i].address = hosts[j].address => i = j
    /\ Announcement(resource) /\ resource.resultClass # "ServerError"
           => Cardinality(HostsAt(hosts, resource.sourceAddress[1])) = 1

(* Two announcements from Addr1, from two ports, and one Host for Addr1. *)
C1_Witness ==
    /\ Len(attempts) = 2
    /\ attempts[1].args = <<Addr1, Port1>>
    /\ attempts[2].args = <<Addr1, Port2>>
    /\ Announcement(resource) /\ resource.sourceAddress = <<Addr1, Port2>>
    /\ Cardinality(HostsAt(hosts, Addr1)) = 1

(* C2: an announcement from an address not in the registry, the created   *)
(* host counting as true, appends exactly one Host with that address,     *)
(* answers Success/Created and starts exactly one Timer, whose argument   *)
(* is the announcement's source address.                                  *)
C2_UnseenAddressCreates ==
    [][ (/\ Announcement(resource')
         /\ HostsAt(hosts, resource'.sourceAddress[1]) = {}
         /\ resource'.hostTruthy)
        => /\ Len(hosts') = Len(hosts) + 1
           /\ SubSeq(hosts', 1, Len(hosts)) = hosts
           /\ hosts'[Len(hosts')].address = resource'.sourceAddress[1]
           /\ resource'.resultClass = "Success"
           /\ resource'.resultCode = "Created"
           /\ attempts' = Append(attempts, Pending(resource'.sourceAddress)) ]_vars

C2_Witness ==
    /\ Announcement(resource)
    /\ resource.resultCode = "Created"
    /\ resource.sourceAddress = <<Addr2, Port1>>
    /\ Len(hosts) = 2 /\ hosts[2].address = Addr2
    /\ Len(attempts) = 2 /\ attempts[2] = Pending(<<Addr2, Port1>>)

(* C3: an announcement from an address already in the registry leaves the *)
(* registry as it is, writes neither resultClass nor resultCode, and      *)
(* starts exactly one Timer for the announcement's source address.        *)
C3_SeenAddressRearms ==
    [][ (/\ Announcement(resource')
         /\ HostsAt(hosts, resource'.sourceAddress[1]) # {})
        => /\ hosts' = hosts
           /\ resource'.resultClass = None
           /\ resource'.resultCode = None
           /\ attempts' = Append(attempts, Pending(resource'.sourceAddress)) ]_vars

C3_Witness ==
    /\ Announcement(resource)
    /\ resource.resultClass = None
    /\ Len(hosts) = 1 /\ hosts[1].address = resource.sourceAddress[1]
    /\ Len(attempts) = 2 /\ attempts[2] = Pending(resource.sourceAddress)

(* C4: a POST to any path other than /dh/lo is answered                   *)
(* ClientError/NotFound, leaves the registry as it is and starts no Timer.*)
C4_UnknownPostNotFound ==
    [][ (resource' # Nothing /\ resource'.method = "POST" /\ resource'.path # "/dh/lo")
        => /\ resource'.resultClass = "ClientError"
           /\ resource'.resultCode = "NotFound"
           /\ hosts' = hosts
           /\ attempts' = attempts ]_vars

C4_Witness ==
    /\ resource # Nothing /\ resource.method = "POST" /\ resource.path = "/dh/unknown"
    /\ resource.resultCode = "NotFound"
    /\ Len(hosts) = 1
    /\ Len(attempts) = 1

(* C5: a request for an unrecognized path is answered ClientError/NotFound *)
(* whatever its method, GET included.                                      *)
C5_UnknownPathAnyMethod ==
    (resource # Nothing /\ resource.path # "/dh/lo")
        => resource.resultClass = "ClientError" /\ resource.resultCode = "NotFound"

----------------------------------------------------------------------------
(* The Observe registration threads *)

(* C6: at most one CoapClient is ever constructed, and once             *)
(* self._coapClient is set it is never set to another client nor is its *)
(* destination changed.                                                 *)
C6_SingleClient ==
    [][ /\ Len(clients') <= 1
        /\ coapClient # 0 => /\ coapClient' = coapClient
                             /\ clients'[coapClient].dest = clients[coapClient].dest ]_vars

C8_FailureContained ==
    /\ [][ \A i \in 1..Len(attempts) :
              (attempts[i].pc # "failed" /\ attempts'[i].pc = "failed")
              => /\ hosts' = hosts
                 /\ resource' = Nothing
                 /\ Len(attempts') = Len(attempts)
                 /\ \A j \in 1..Len(attempts) : j # i => attempts'[j] = attempts[j]
                 /\ coapClient' = coapClient
                 /\ clients' = clients
                 /\ stopped' = stopped ]_vars
    /\ []( (\E i \in 1..Len(attempts) : attempts[i].pc = "failed") /\ ~stopped
           => /\ ENABLED (\E in \in Inputs : ServeGet(in))
              /\ ENABLED (\E in \in Inputs : in.path # "/dh/lo" /\ ServePost(in))
              /\ Len(attempts) < MaxAttempts
                     => ENABLED (\E in \in Inputs : in.path = "/dh/lo" /\ ServePost(in))
              /\ (\E c \in 1..Len(clients) : clients[c].registered /\ ~clients[c].closed)
                     => ENABLED (\E message \in Notifications : ObserveTemp(message)) )

(* An announcement answered after a thread has failed. *)
C8_Witness ==
    /\ \E i \in 1..Len(attempts) : attempts[i].pc = "failed"
    /\ Announcement(resource)
    /\ resource.resultCode = "Created"
    /\ Len(hosts) = 2

(* C9: when the created host does not count as true, an announcement     *)
(* from an address not in the registry is answered                       *)
(* ServerError/InternalServerError, no Host is appended and no Timer is  *)
(* started.                                                              *)
C9_CreationFailure ==
    [][ (/\ Announcement(resource')
         /\ HostsAt(hosts, resource'.sourceAddress[1]) = {}
         /\ ~resource'.hostTruthy)
        => /\ resource'.resultClass = "ServerError"
           /\ resource'.resultCode = "InternalServerError"
           /\ hosts' = hosts
           /\ attempts' = attempts ]_vars

C9_Witness ==
    /\ Announcement(resource)
    /\ resource.resultClass = "ServerError"
    /\ HostsAt(hosts, resource.sourceAddress[1]) = {}
    /\ Len(hosts) = 1
    /\ Len(attempts) = 1

(* C10: the registry only grows at its end: every step keeps the Hosts   *)
(* it holds, with their address and name, at their positions.            *)
C10_AppendOnly ==
    [][ /\ Len(hosts') >= Len(hosts)
        /\ SubSeq(hosts', 1, Len(hosts)) = hosts ]_vars

(* Two Hosts, after threads have run and failed and close() has run. *)
C10_Witness ==
    /\ Len(hosts) = 2
    /\ stopped
    /\ \E i \in 1..Len(attempts) : attempts[i].pc = "done"
    /\ \E i \in 1..Len(attempts) : attempts[i].pc = "failed"

----------------------------------------------------------------------------
(* Timers *)

Running(i) ==
    /\ i <= Len(attempts)
    /\ attempts[i].pc \in {"create", "register", "send", "done", "failed"}

(* C11: no step takes a pending Timer away other than by running its     *)
(* thread, and with time passing and threads scheduled fairly every      *)
(* Timer started by an announcement runs _startObserve in the end.       *)
C11_EveryTimerFires ==
    /\ [][ \A i \in 1..Len(attempts) :
              attempts[i].pc = "pending"
              => /\ Len(attempts') >= i
                 /\ attempts'[i].args = attempts[i].args \/ attempts'[i].pc = "failed"
                 /\ attempts'[i].pc \in {"pending", "create", "send", "failed"} ]_vars
    /\ \A i \in 1..MaxAttempts :
           (Len(attempts) >= i /\ attempts[i].pc = "pending") ~> Running(i)

(* A Timer's thread running after close(), another thread having failed. *)
C11_Witness ==
    /\ stopped
    /\ \E i \in 1..Len(attempts) : attempts[i].pc = "failed"
    /\ \E i \in 1..Len(attempts) : attempts[i].pc \in {"create", "send"}

(* C12: a Timer's thread starts no earlier than 2 time units after the   *)
(* announcement that started the Timer, and never in the step of a       *)
(* server callback: the callback leaves the Timer pending with no time   *)
(* elapsed, its response already written.                                *)
C12_NotBeforeDelay ==
    [][ /\ \A i \in 1..Len(attempts) :
              (attempts[i].pc = "pending" /\ attempts'[i].pc # "pending")
              => attempts[i].elapsed >= 2 /\ resource' = Nothing
        /\ \A i \in (Len(attempts) + 1)..Len(attempts') :
              /\ attempts'[i].pc = "pending" /\ attempts'[i].elapsed = 0
              /\ Announcement(resource') ]_vars

(* One thread has started after its delay while a later Timer still waits. *)
C12_Witness ==
    /\ Len(attempts) = 2
    /\ attempts[1].pc = "create" /\ attempts[1].elapsed = 2
    /\ attempts[2].pc = "pending" /\ attempts[2].elapsed = 1

----------------------------------------------------------------------------
(* Host names *)

(* The characters of s after its last ":", all of s if it has none. *)
AfterLastColon(s) ==
    LET colons == {k \in 1..Len(s) : s[k] = ":"}
        last   == IF colons = {} THEN 0
                  ELSE CHOOSE k \in colons : \A j \in colons : j <= k
    IN  SubSeq(s, last + 1, Len(s))

ExampleAddress ==
    <<"1", "0", ".", "0", ".", "0", ".", "5", ":", "5", "6", "8", "3">>

(* C13: the name of every Host in the registry is "mote-" followed by    *)
(* what follows the last ":" of its address, and getInvariantName gives  *)
(* that name again when applied to the Host; for "10.0.0.5:5683" the     *)
(* name is "mote-5683".                                                  *)
C13_NameFromAddress ==
    /\ \A i \in 1..Len(hosts) :
           /\ hosts[i].name = <<"m", "o", "t", "e", "-">> \o AfterLastColon(hosts[i].address)
           /\ getInvariantName(hosts[i]) = hosts[i].name
    /\ hosts # <<>> =>
           getInvariantName([address |-> ExampleAddress])
               = <<"m", "o", "t", "e", "-", "5", "6", "8", "3">>

(* A Host whose address has colons and one whose address has none. *)
C13_Witness ==
    /\ Len(hosts) = 2
    /\ hosts[1].address = Addr1 /\ hosts[1].name = <<"m", "o", "t", "e", "-", "1">>
    /\ hosts[2].address = Addr2 /\ hosts[2].name = <<"m", "o", "t", "e", "-", "1", "0">>

----------------------------------------------------------------------------
(* Notifications *)

TwoDigits(d) == <<Digit(d \div 10), Digit(d % 10)>>

(* "<class>.<two-digit detail>; value <value>" *)
StatusText(message) ==
    str(message.codeClass) \o <<".">> \o TwoDigits(message.codeDetail)
        \o <<"; value ">> \o <<message.payload>>

----------------------------------------------------------------------------
(* The requests sent *)

(* C15: every message handed to send is non-confirmable, a GET request,  *)
(* carries exactly the options Uri-Path "dh", Uri-Path "tmp", Observe 0  *)
(* in this order, a token of 2 bytes each in 0..255 and a message id in  *)
(* 0..65535.                                                             *)
C15_RequestShape ==
    lastSent # Nothing =>
        LET msg == lastSent.msg
        IN  /\ msg.messageType = "NON"
            /\ msg.codeClass = "Request" /\ msg.codeDetail = "GET"
            /\ msg.options = << <<"UriPath", "dh">>, <<"UriPath", "tmp">>, <<"Observe", 0>> >>
            /\ msg.tokenLength = 2
            /\ Len(msg.token) = 2
            /\ \A k \in 1..Len(msg.token) : msg.token[k] \in 0..255
            /\ msg.messageId \in 0..65535

(* A request with the largest message id and the largest token byte. *)
C15_Witness ==
    /\ lastSent # Nothing
    /\ lastSent.msg.messageId = 65535
    /\ lastSent.msg.token[1] = 255

----------------------------------------------------------------------------
(* The shared client *)

(* C16: every send is made on a client whose registerForResponse has     *)
(* completed, under any interleaving of the threads and after any        *)
(* failed attempt.                                                       *)
C16_SendOnRegisteredClient ==
    lastSent # Nothing => lastSent.registered

AllEnded == \A i \in 1..Len(attempts) : attempts[i].pc \in {"done", "failed"}

(* C17: once close() has run and every Timer's thread has ended, no      *)
(* client built by a thread is left unclosed.                            *)
C17_NoClientLeftOpen ==
    (stopped /\ AllEnded) => \A c \in 1..Len(clients) : clients[c].closed

(* C18: an attempt that fires after close() has closed the shared       *)
(* client does not pass the client check of line 154 with that closed    *)
(* client and go on to send over it at line 160.                         *)
C18_NoSendOnClosedClient ==
    [][ \A i \in 1..Len(attempts) :
           ( /\ stopped
             /\ coapClient # 0
             /\ clients[coapClient].closed
             /\ attempts[i].pc = "pending" )
           => attempts'[i].pc # "send" ]_vars

----------------------------------------------------------------------------
(* Counting *)

(* The request handled by this step is a /dh/lo announcement whose host *)
(* was found or created: its address has a Host after the step.         *)
Counted(res, hs) ==
    Announcement(res) /\ HostsAt(hs, res.sourceAddress[1]) # {}

(* C19: the number of attempts scheduled so far equals the number of      *)
(* /dh/lo announcements handled so far whose host was found or created:   *)
(* both start at zero, and a step adds one attempt exactly when it        *)
(* handles such an announcement; unknown-path requests, notifications,    *)
(* failed creations and failed attempts add none.                         *)
C19_AttemptsCountAnnouncements ==
    /\ Len(attempts) = 0
    /\ [][ Len(attempts') = Len(attempts)
                            + (IF Counted(resource', hosts') THEN 1 ELSE 0) ]_vars

C19_Witness ==
    /\ Announcement(resource)
    /\ resource.resultClass = "ServerError"
    /\ Len(attempts) = 1
    /\ attempts[1].pc = "failed"

(* C20: handling a notification leaves the registry, the shared client,  *)
(* its connections and the attempts unchanged and writes exactly one     *)
(* record; after a notification every notification, the same one or      *)
(* another, is still handled.                                            *)
C20_PassiveSink ==
    /\ [][ delivered' # Nothing
           => /\ Len(logged') = 1
              /\ hosts' = hosts
              /\ coapClient' = coapClient
              /\ clients' = clients
              /\ attempts' = attempts ]_vars
    /\ [](delivered # Nothing
          => \A message \in Notifications : ENABLED ObserveTemp(message))

C20_Witness ==
    /\ delivered # Nothing
    /\ delivered.codeClass = 4
    /\ hosts # <<>>
    /\ \E i \in 1..Len(attempts) : attempts[i].pc = "pending"

====
